---------------------------- MODULE Spec2Model ----------------------------
(***************************************************************************)
(* Model of the BookFetcher page-selection pipeline                        *)
(* (src/playwright_book_extractor.py): the extraction coordinator          *)
(* extract_google_books_pages, the concurrent OCR tasks                    *)
(* extract_text_from_image_async, the cleaner clean_ocr_text and the       *)
(* classifier step analyze_book_with_gpt4; and of the status store of the  *)
(* backend (src/backend.py).                                               *)
(*                                                                         *)
(* The coordinator is one asyncio coroutine; pc is its position.  Each OCR *)
(* task runs its engine in a thread pool and completes at any time after   *)
(* it was created.  The browser, the OCR engine and the language model are *)
(* external: their outcomes are drawn with \E.                             *)
(*                                                                         *)
(* Specifications: Spec, one session (FairSpec, the same with fairness);   *)
(* SharedDirSpec, two sessions writing to temp/screenshots; CleanerSpec,   *)
(* the cleaner on texts around the thresholds of its rules; BackendSpec,   *)
(* start_automation, the automation threads, their extractor processes and *)
(* the status poll (FairBackendSpec, the same with fairness); CallSpec,    *)
(* one call of the classifier, from the summary of the prompt to the       *)
(* parsed response.  Each leaves the variables of the others as they       *)
(* start.                                                                  *)
(***************************************************************************)
EXTENDS Integers, Sequences, FiniteSets, TLC

----------------------------------------------------------------------------
(* Bounds of the model *)

\* the page cap handed to the session (max_pages, 18 by default in the code)
MaxPages == 4

\* the most OCR tasks of one session whose engine run fails while the engine
\* is installed (an unavailable engine fails them all)
MaxOcrErrors == 1

\* the pages each of the concurrent sessions captures
MaxDirPages == 2

\* the lines of a text given to the cleaner
MaxTextLines == 2

\* the /start-automation requests the backend serves
MaxThreads == 2
MaxStderr == 1
MaxSummaryPages == 2
MaxOverPreview == 2

(* Program constants *)

\* `if page_num >= 3 and page_num % 3 == 0`
CheckEvery == 3

\* `if len(page_contents) >= 3`
MinPagesToAnalyze == 3

\* Python's None where an integer may stand (selected_page, target_page)
None == -1

max_pages == MaxPages

----------------------------------------------------------------------------
(* Page images and the OCR worker *)

\* os.path.join(screenshots_dir, f"page_{page_num}.png"): the directory is the
\* same for every session, the name carries the page number
screenshot_path(n) == <<"page", n, "png">>

\* int(filename.split('_')[1].split('.')[0])
filename_page_num(filename) == filename[2]

\* clean_ocr_text(pytesseract.image_to_string(image)).strip() for the image of
\* page n: a non-empty text that identifies the page it was read from
recognized_text(n) == <<n>>

\* run_ocr with the exception swallowed: a variant that lets it escape
run_ocr_raising(image_path, outcome) ==
    IF outcome = "ok"
    THEN [raised |-> FALSE, text |-> recognized_text(filename_page_num(image_path))]
    ELSE [raised |-> TRUE, text |-> <<>>]

\* run_ocr: the engine's text, or "" on any exception
run_ocr(image_path, outcome) ==
    IF outcome = "ok"
    THEN [raised |-> FALSE, text |-> recognized_text(filename_page_num(image_path))]
    ELSE [raised |-> FALSE, text |-> <<>>]

\* what an OCR task ends with: the PageText dict, or the exception that
\* escaped the coroutine
extract_text_from_image_async(image_path, available, outcome) ==
    LET page_number == filename_page_num(image_path) IN
    IF ~available
    THEN [kind |-> "dict", page_number |-> page_number, filename |-> image_path,
          text |-> <<>>, text_length |-> 0]
    ELSE LET r == run_ocr(image_path, outcome) IN
         IF r.raised
         THEN [kind |-> "exception"]
         ELSE [kind |-> "dict", page_number |-> page_number,
               filename |-> image_path, text |-> r.text,
               text_length |-> Len(r.text)]

\* a task that has not finished
Pending == [kind |-> "pending"]

\* asyncio.create_task(extract_text_from_image_async(screenshot_path))
create_task(image_path) == [image_path |-> image_path, result |-> Pending]

----------------------------------------------------------------------------
(* Lists of PageText *)

\* asyncio.gather(*tasks, return_exceptions=True): the results in the order
\* of the tasks, whatever the order they finished in
gather(tasks) == [i \in 1..Len(tasks) |-> tasks[i].result]

\* a gather that does not wait: the results as they are
NotAwaited(tasks) == TRUE

\* await asyncio.gather(...) returns once every task has finished
AllDone(tasks) == \A i \in 1..Len(tasks) : tasks[i].result # Pending

\* ocr_tasks[:page_num]
Prefix(s, n) == SubSeq(s, 1, IF n < Len(s) THEN n ELSE Len(s))

RECURSIVE only_dicts(_)
\* for result in completed_ocr: if isinstance(result, dict): append
only_dicts(results) ==
    IF results = <<>> THEN <<>>
    ELSE IF Head(results).kind = "dict"
         THEN <<Head(results)>> \o only_dicts(Tail(results))
         ELSE only_dicts(Tail(results))

RECURSIVE InsertByPageNumber(_, _)
InsertByPageNumber(x, s) ==
    IF s = <<>> THEN <<x>>
    ELSE IF x.page_number < Head(s).page_number
         THEN <<x>> \o s
         ELSE <<Head(s)>> \o InsertByPageNumber(x, Tail(s))

RECURSIVE InsertByPageNumberDesc(_, _)
InsertByPageNumberDesc(x, s) ==
    IF s = <<>> THEN <<x>>
    ELSE IF x.page_number > Head(s).page_number
         THEN <<x>> \o s
         ELSE <<Head(s)>> \o InsertByPageNumberDesc(x, Tail(s))

RECURSIVE SortInto(_, _)
SortInto(acc, s) ==
    IF s = <<>> THEN acc
    ELSE SortInto(InsertByPageNumber(Head(s), acc), Tail(s))

RECURSIVE SortIntoDesc(_, _)
SortIntoDesc(acc, s) ==
    IF s = <<>> THEN acc
    ELSE SortIntoDesc(InsertByPageNumberDesc(Head(s), acc), Tail(s))

\* the sort with the order turned round (reverse=True)
sort_by_page_number_reversed(contents) == SortIntoDesc(<<>>, contents)

\* page_contents.sort(key=lambda x: x['page_number']): stable, ascending
sort_by_page_number(contents) == SortInto(<<>>, contents)

\* the PageText list built from a batch of finished tasks
collect_page_contents(tasks) == sort_by_page_number(only_dicts(gather(tasks)))

----------------------------------------------------------------------------
(* The classifier step *)

\* a field the model's JSON object does not carry
Missing == "missing"

\* The language model's answers the session is run against.  The code puts no
\* condition on them, so they are not restricted to answers that follow the
\* prompt's rule: content_pages may be unsorted, selected_page may be any
\* integer or null.
ModelClassifications == {"fiction", "non-fiction", Missing}
ModelContentPages == {<<>>, <<2>>, <<2, 3>>, <<3, 2>>}
ModelSelectedPages == {None, 0, 2, 3, MaxPages + 1}

JsonResponses ==
    {[kind |-> "json", classification |-> c, content_pages |-> cp,
      selected_page |-> s] :
        c \in ModelClassifications, cp \in ModelContentPages,
        s \in ModelSelectedPages}

\* the request fails, or the text it returns is not JSON
FailedResponses ==
    {[kind |-> k, classification |-> Missing, content_pages |-> <<>>,
      selected_page |-> None] : k \in {"request_failed", "malformed_json"}}

Responses == JsonResponses \cup FailedResponses

\* an except branch that falls back to the first page
error_verdict_first_page(response) ==
    [classification |-> "non-fiction", content_pages |-> <<1>>,
     selected_page |-> 1, reasoning |-> <<"Error", response.kind>>,
     confidence |-> "low"]

\* the verdict of the except branch
error_verdict(response) ==
    [classification |-> "unknown", content_pages |-> <<>>,
     selected_page |-> None, reasoning |-> <<"Error", response.kind>>,
     confidence |-> "low"]

\* analyze_book_with_gpt4: the model's own fields with the .get defaults, or
\* the except branch's verdict.  all_pages only feeds the prompt.
analyze_book_with_gpt4(all_pages, response) ==
    IF response.kind = "json"
    THEN [classification |-> IF response.classification = Missing
                             THEN "unknown" ELSE response.classification,
          content_pages |-> response.content_pages,
          selected_page |-> response.selected_page,
          reasoning |-> <<"model">>,
          confidence |-> "high"]
    ELSE error_verdict(response)

\* the coordinator's own early-stop target
target_page(early_analysis) ==
    LET classification == early_analysis.classification
        content_pages == early_analysis.content_pages
    IN IF classification = "fiction" /\ Len(content_pages) >= 2
       THEN content_pages[2]
       ELSE IF classification = "non-fiction" /\ Len(content_pages) >= 1
            THEN content_pages[1]
            ELSE None

\* `if target_page and target_page <= page_num`
early_stop(early_analysis, n) ==
    LET t == target_page(early_analysis) IN t # None /\ t # 0 /\ t <= n

----------------------------------------------------------------------------
(* The session result *)

\* Python's None where a dict or a record may stand
NoPage == [kind |-> "none"]
NoResult == [kind |-> "none"]
NoCall == [phase |-> "none"]

\* an optional text: null, or the text
Null == <<>>
Some(text) == <<text>>

\* gpt4_result = {"classification": "unknown", "confidence": "low"}, read
\* with the .get defaults of the result
default_gpt4_result ==
    [classification |-> "unknown", content_pages |-> <<>>,
     selected_page |-> None, reasoning |-> <<>>, confidence |-> "low"]

\* if selected_page_num and 1 <= selected_page_num <= len(page_contents):
\*     selected_page = page_contents[selected_page_num - 1]
selected_page_of(selected_page_num, contents) ==
    IF /\ selected_page_num # None
       /\ selected_page_num # 0
       /\ 1 <= selected_page_num
       /\ selected_page_num <= Len(contents)
    THEN contents[selected_page_num]
    ELSE NoPage

\* the result dict, with the verdict read from verdict
success_result(n_files, file_set, verdict, selected, contents) ==
    [success |-> TRUE,
     pages_extracted |-> n_files,
     files |-> file_set,
     total_pages |-> Len(contents),
     classification |-> verdict.classification,
     content_pages |-> verdict.content_pages,
     selected_page_number |-> verdict.selected_page,
     reasoning |-> verdict.reasoning,
     selected_page_content |-> IF selected # NoPage THEN Some(selected.text) ELSE Null,
     selected_page_filename |-> IF selected # NoPage THEN Some(selected.filename) ELSE Null,
     all_pages |-> contents]

\* the result of the outer except branch
failure_result(error) ==
    [success |-> FALSE, error |-> error, pages_extracted |-> 0]

----------------------------------------------------------------------------
(* The OCR cleaner: clean_ocr_text *)

\* a text is the sequence of its characters, a character a string

AsciiLower ==
    {"a", "b", "c", "d", "e", "f", "g", "h", "i", "j", "k", "l", "m", "n",
     "o", "p", "q", "r", "s", "t", "u", "v", "w", "x", "y", "z"}

AsciiUpper ==
    {"A", "B", "C", "D", "E", "F", "G", "H", "I", "J", "K", "L", "M", "N",
     "O", "P", "Q", "R", "S", "T", "U", "V", "W", "X", "Y", "Z"}

AsciiDigits ==
    {"0", "1", "2", "3", "4", "5", "6", "7", "8", "9"}

\* a letter outside A-Z and a-z, as the engine gives for accented text
OtherLetters == {"e_acute"}

\* characters str.strip, str.isspace and \s hold for whitespace
Whitespace == {" ", "\t", "\r"}

\* the line separator of text.split('\n')
Newline == "\n"

\* [A-Za-z0-9+/=]
Base64Chars == AsciiLower \cup AsciiUpper \cup AsciiDigits \cup {"+", "/", "="}

\* [0-9\s\-_+=.,;:!@#$%^&*()]
SymbolChars ==
    AsciiDigits \cup Whitespace \cup
    {"-", "_", "+", "=", ".", ",", ";", ":", "!", "@", "#", "$", "%", "^",
     "&", "*", "(", ")"}

\* c.isalnum()
isalnum(c) == c \in AsciiLower \cup AsciiUpper \cup AsciiDigits \cup OtherLetters

\* c.isspace()
isspace(c) == c \in Whitespace

\* the thresholds of the rules; readable_chars / len(line) < 0.7 is
\* compared in hundredths
Base64MinLength == 20
ReadabilityMinLength == 10
ReadablePercent == 70
MinLineLength == 3
SymbolMinLength == 5

\* google_artifacts
artifact_ogle_books ==
    <<"o", "g", "l", "e", " ", "B", "o", "o", "k", "s">>

artifact_enjoy_access ==
    <<"n", "d", " ", "e", "n", "j", "o", "y", " ", "e", "s", "l", "r", " ",
      "a", "c", "c", "e", "s", "s", " ", "t", "o", " ", "y", "o", "u", "r",
      " ", "f", "a", "v", "o", "r", " ", "e", "s", "t", "o", "s">>

artifact_powered_by ==
    <<"P", "o", "w", "e", "r", "e", "d", " ", "b", "y", " ", "G", "o", "o",
      "g", "l", "e", " ", "B", "o", "o", "k", "s", " ", "A", "P", "I">>

artifact_this_downloads ==
    <<"T", "h", "i", "s", " ", "d", "o", "w", "n", "l", "o", "a", "d", "s",
      " ", "a", "n", "d", " ", "e", "x", "t", "r", "a", "c", "t", "s", " ",
      "t", "e", "x", "t", " ", "f", "r", "o", "m", " ", "G", "o", "o", "g",
      "l", "e", " ", "B", "o", "o", "k", "s", " ", "P", "D", "F", " ", "p",
      "r", "e", "v", "i", "e", "w", "s">>

google_artifacts ==
    {artifact_ogle_books, artifact_enjoy_access, artifact_powered_by,
     artifact_this_downloads}

\* text.split('\n')
RECURSIVE split(_)
split(text) ==
    IF \A i \in 1..Len(text) : text[i] # Newline
    THEN <<text>>
    ELSE LET i == CHOOSE k \in 1..Len(text) :
                      /\ text[k] = Newline
                      /\ \A j \in 1..(k - 1) : text[j] # Newline
         IN <<SubSeq(text, 1, i - 1)>> \o split(SubSeq(text, i + 1, Len(text)))

RECURSIVE lstrip(_)
lstrip(line) ==
    IF line # <<>> /\ isspace(Head(line)) THEN lstrip(Tail(line)) ELSE line

RECURSIVE rstrip(_)
rstrip(line) ==
    IF line # <<>> /\ isspace(line[Len(line)])
    THEN rstrip(SubSeq(line, 1, Len(line) - 1))
    ELSE line

\* line.lstrip()
strip_left_only(line) == lstrip(line)

\* line.strip()
strip(line) == rstrip(lstrip(line))

\* re.match(r'^[chars]{n,}$', line)
match_all(line, chars, n) ==
    /\ Len(line) >= n
    /\ \A i \in 1..Len(line) : line[i] \in chars

\* sum(1 for c in line if c.isalnum() or c.isspace())
RECURSIVE readable_chars(_)
readable_chars(line) ==
    IF line = <<>> THEN 0
    ELSE (IF isalnum(Head(line)) \/ isspace(Head(line)) THEN 1 ELSE 0)
         + readable_chars(Tail(line))

\* artifact in line
contains(line, artifact) ==
    \E i \in 1..(Len(line) - Len(artifact) + 1) :
        SubSeq(line, i, i + Len(artifact) - 1) = artifact

\* the `continue`s of the loop, on the stripped line
skipped(line) ==
    IF line = <<>> THEN TRUE
    ELSE IF match_all(line, Base64Chars, Base64MinLength) THEN TRUE
    ELSE IF /\ Len(line) > ReadabilityMinLength
            /\ 100 * readable_chars(line) < ReadablePercent * Len(line)
         THEN TRUE
    ELSE IF Len(line) < MinLineLength THEN TRUE
    ELSE IF match_all(line, SymbolChars, SymbolMinLength) THEN TRUE
    ELSE \E artifact \in google_artifacts : contains(line, artifact)

\* a loop body that tests the line as read and strips what it keeps
cleaned_line_stripped_late(raw) ==
    IF skipped(raw) THEN <<>> ELSE <<strip(raw)>>

\* one pass of the loop: what it appends to cleaned_lines
cleaned_line(raw) ==
    LET line == strip(raw) IN
    IF skipped(line) THEN <<>> ELSE <<line>>

\* the loop
RECURSIVE cleaned_lines(_)
cleaned_lines(lines) ==
    IF lines = <<>> THEN <<>>
    ELSE cleaned_line(Head(lines)) \o cleaned_lines(Tail(lines))

\* '\n'.join(lines)
RECURSIVE join(_)
join(lines) ==
    IF lines = <<>> THEN <<>>
    ELSE IF Len(lines) = 1 THEN Head(lines)
    ELSE Head(lines) \o <<Newline>> \o join(Tail(lines))

clean_ocr_text(text) == join(cleaned_lines(split(text)))

----------------------------------------------------------------------------
(* The classifier's request and response: analyze_book_with_gpt4 *)

PreviewLength == 400

Ellipsis == <<".", ".", ".">>

\* preview_text = text[:400] + "..." if len(text) > 400 else text
preview_text_of(page_text) ==
    IF Len(page_text) > PreviewLength
    THEN SubSeq(page_text, 1, PreviewLength) \o Ellipsis
    ELSE page_text

\* f"Page {i}: {len(text)} characters\n{preview_text}" for each page of the
\* list, i from enumerate(all_pages, 1)
pages_summary_of(pages) ==
    [i \in 1..Len(pages) |->
        [label |-> i,
         characters |-> Len(pages[i].text),
         preview |-> preview_text_of(pages[i].text)]]

\* str.strip() of a text of several lines
RECURSIVE strip_text(_)
strip_text(s) ==
    IF s # <<>> /\ (isspace(Head(s)) \/ Head(s) = Newline)
    THEN strip_text(Tail(s))
    ELSE IF s # <<>> /\ (isspace(s[Len(s)]) \/ s[Len(s)] = Newline)
    THEN strip_text(SubSeq(s, 1, Len(s) - 1))
    ELSE s

startswith(s, prefix) ==
    Len(s) >= Len(prefix) /\ SubSeq(s, 1, Len(prefix)) = prefix

endswith(s, suffix) ==
    /\ Len(s) >= Len(suffix)
    /\ SubSeq(s, Len(s) - Len(suffix) + 1, Len(s)) = suffix

\* the character of the fences, written by its name
Backtick == "backtick"

\* three backticks, and three backticks and json
Fence == <<Backtick, Backtick, Backtick>>
FenceJson == Fence \o <<"j", "s", "o", "n">>

\* the two openings tested in the other order
remove_fences_backticks_first(result_text) ==
    LET a == IF startswith(result_text, Fence)
             THEN SubSeq(result_text, 4, Len(result_text)) ELSE result_text
        b == IF startswith(a, FenceJson) THEN SubSeq(a, 8, Len(a)) ELSE a
    IN IF endswith(b, Fence) THEN SubSeq(b, 1, Len(b) - 3) ELSE b

\* if startswith(FenceJson): [7:]; if startswith(Fence): [3:];
\* if endswith(Fence): [:-3]
remove_fences(result_text) ==
    LET a == IF startswith(result_text, FenceJson)
             THEN SubSeq(result_text, 8, Len(result_text)) ELSE result_text
        b == IF startswith(a, Fence) THEN SubSeq(a, 4, Len(a)) ELSE a
    IN IF endswith(b, Fence) THEN SubSeq(b, 1, Len(b) - 3) ELSE b

\* the JSON objects of the model: {} and two objects with all four fields,
\* their members written as one character
EmptyObject == <<"{", "}">>
FictionObject == <<"{", "f", "}">>
NonFictionObject == <<"{", "n", "}">>
ObjectTexts == {EmptyObject, FictionObject, NonFictionObject}

\* json.loads: the object of the text, white space around it allowed, or an
\* exception; result.get(...) finds no key in {}
json_loads(s) ==
    LET object == strip_text(s) IN
    IF object = EmptyObject
    THEN [kind |-> "json", classification |-> Missing,
          content_pages |-> <<>>, selected_page |-> None]
    ELSE IF object = FictionObject
    THEN [kind |-> "json", classification |-> "fiction",
          content_pages |-> <<2, 3>>, selected_page |-> 3]
    ELSE IF object = NonFictionObject
    THEN [kind |-> "json", classification |-> "non-fiction",
          content_pages |-> <<2>>, selected_page |-> 2]
    ELSE [kind |-> "malformed_json", classification |-> Missing,
          content_pages |-> <<>>, selected_page |-> None]

\* from message.content to what json.loads gives
parse_response(content) ==
    json_loads(strip_text(remove_fences(strip_text(content))))

----------------------------------------------------------------------------
(* State *)

VARIABLES
    pc,                   \* the coordinator's position
    TESSERACT_AVAILABLE,  \* whether pytesseract could be imported
    files,                \* the page numbers n with a page_n.png in temp/screenshots
    browser_closed,       \* browser.close() has run
    viewer_element,       \* whether a reader element was found
    page_num,             \* the capture loops' page_num
    pages_extracted,      \* the coordinator's counter
    ocr_tasks,            \* the OCR tasks in the order they were created
    page_contents,        \* the PageText list last built
    actual_pages,         \* len(screenshot_files)
    gpt4_result,          \* the verdict the result reports
    result,               \* what extract_google_books_pages returned
    emitted,              \* the RESULT: lines printed
    \* history, for the properties
    attempted,            \* page numbers whose capture was started
    captured,             \* page numbers captured successfully
    nav_requests,         \* page numbers after which navigation was requested
    last_call,            \* the last call of the classifier: phase, page_num,
                          \* the model's answer, the list handed over, the verdict
    final_calls,          \* calls of the classifier after capture ended
    stopped_early,        \* an early-stop check broke out of its loop
    checks,               \* the early-stop checks made: the page_num, the
                          \* number of tasks awaited, whether the classifier
                          \* was called
    ocr_failed,           \* page numbers whose OCR gave no text
    out_of_order          \* a task finished before one created earlier

session_vars ==
        <<pc, TESSERACT_AVAILABLE, files, browser_closed, viewer_element,
          page_num, pages_extracted, ocr_tasks, page_contents,
          actual_pages, gpt4_result, result, emitted, attempted, captured,
          nav_requests, last_call, final_calls, stopped_early, checks,
          ocr_failed, out_of_order>>

\* temp/screenshots as concurrent sessions share it
VARIABLES
    screenshots_dir,      \* for each n, the sessions that wrote page_n.png, in
                          \* the order they wrote it; the file holds the last
    session_page_num,     \* each session's page_num
    session_ocr_tasks,    \* each session's OCR tasks that have not read yet
    images_read           \* what OCR tasks read: whose task, which file, whose
                          \* image

dir_vars == <<screenshots_dir, session_page_num, session_ocr_tasks, images_read>>

\* the cleaner applied to a text, and to its own output
VARIABLES
    cleaner_pc,           \* "text", "cleaned", "cleaned_again"
    text,                 \* what the engine recognized
    cleaned_text,         \* clean_ocr_text(text)
    cleaned_again         \* clean_ocr_text(cleaned_text)

cleaner_vars == <<cleaner_pc, text, cleaned_text, cleaned_again>>

\* the backend's status store and its automation threads
VARIABLES
    automation_status,    \* the dict: an entry, or NoEntry, for each id
    threads,              \* the automation threads in the order they were
                          \* started: automation_id, position, the local
                          \* result, and the extractor process it started:
                          \* its state, its returncode, what its stderr
                          \* pipe holds
    reinitialised,        \* ids whose entry start_automation replaced while a
                          \* thread started for it had not finished
    poll                  \* the request GET /automation-status/<id> at work:
                          \* its position, the id, the dict it got under the
                          \* lock (the live entry, or a dict replaced since,
                          \* with the value it had then), and the response

backend_vars == <<automation_status, threads, reinitialised, poll>>

\* one call of analyze_book_with_gpt4
VARIABLES
    call_pc,              \* "pages", "summary", "parsed"
    call_pages,           \* the list of PageText it is given
    pages_summary,        \* the per-page summary of the prompt
    result_text,          \* message.content of the response
    call_verdict          \* what the call returns

call_vars == <<call_pc, call_pages, pages_summary, result_text, call_verdict>>

vars == <<session_vars, dir_vars, cleaner_vars, backend_vars, call_vars>>

\* what a step of one session by itself leaves alone
not_session == <<dir_vars, cleaner_vars, backend_vars, call_vars>>

\* what a step of the sessions sharing the directory leaves alone
not_dir == <<session_vars, cleaner_vars, backend_vars, call_vars>>

\* what a step of the cleaner leaves alone
not_cleaner == <<session_vars, dir_vars, backend_vars, call_vars>>

\* what a step of the backend leaves alone
not_backend == <<session_vars, dir_vars, cleaner_vars, call_vars>>

\* what a step of one classifier call leaves alone
not_call == <<session_vars, dir_vars, cleaner_vars, backend_vars>>

browser_vars == <<browser_closed, viewer_element>>
ocr_vars == <<ocr_tasks, ocr_failed, out_of_order>>
analysis_vars == <<page_contents, last_call, stopped_early, checks>>
final_vars == <<actual_pages, gpt4_result, result, emitted, final_calls>>
capture_history == <<attempted, captured, nav_requests>>

\* image files an earlier session may have left in temp/screenshots, which no
\* session empties
StaleFileSets == {{}, {MaxPages + 1}}

SessionInit ==
    /\ pc = "launch"
    /\ TESSERACT_AVAILABLE \in BOOLEAN
    /\ files \in StaleFileSets
    /\ browser_closed = FALSE
    /\ viewer_element = FALSE
    /\ page_num = 0
    /\ pages_extracted = 0
    /\ ocr_tasks = <<>>
    /\ page_contents = <<>>
    /\ actual_pages = 0
    /\ gpt4_result = default_gpt4_result
    /\ result = NoResult
    /\ emitted = <<>>
    /\ attempted = {}
    /\ captured = {}
    /\ nav_requests = {}
    /\ last_call = NoCall
    /\ final_calls = 0
    /\ stopped_early = FALSE
    /\ checks = {}
    /\ ocr_failed = {}
    /\ out_of_order = FALSE

\* a session that is not looked at
SessionIdle == SessionInit /\ TESSERACT_AVAILABLE /\ files = {}

\* the sessions of one backend, which starts each in a process of its own
\* with the same working directory
Sessions == {1, 2}

DirPages == 1..MaxDirPages

DirInit ==
    /\ screenshots_dir = [n \in DirPages |-> <<>>]
    /\ session_page_num = [s \in Sessions |-> 1]
    /\ session_ocr_tasks = [s \in Sessions |-> {}]
    /\ images_read = {}

\* n times the character c
Repeat(c, n) == [i \in 1..n |-> c]

\* lines an engine may give, around the thresholds of the rules
CleanerLines ==
    {<<>>,
     <<" ", "\t">>,
     <<"a", "b">>,
     <<" ", "a", "b">>,
     <<"a", "b", "c">>,
     <<"\t", "T", "h", "e", " ", "e", "n", "d", "\r">>,
     Repeat("a", 19),
     Repeat("a", 20),
     Repeat("A", 18) \o <<"+", "/", "=">>,
     Repeat("a", 10) \o <<" ">> \o Repeat("b", 10),
     Repeat("e_acute", 20),
     Repeat("a", 7) \o Repeat("~", 4),
     Repeat("a", 8) \o Repeat("~", 3),
     Repeat("a", 5) \o Repeat("~", 5),
     Repeat("a", 14) \o Repeat("~", 6),
     <<"1", "2", "3", "4", "5">>,
     <<"1", "2", "3", "4">>,
     <<"1", " ", "-", " ", "2">>,
     <<"1", "2", "a", "4", "5">>,
     Repeat("=", 4),
     <<"G", "o">> \o artifact_ogle_books,
     <<" ">> \o artifact_enjoy_access \o <<"!">>,
     artifact_powered_by}

\* the texts of at most n lines
RECURSIVE TextsOfLines(_)
TextsOfLines(n) ==
    IF n = 0 THEN {<<>>}
    ELSE LET shorter == TextsOfLines(n - 1) IN
         shorter \cup CleanerLines \cup
         {t \o <<Newline>> \o line : t \in shorter, line \in CleanerLines}

CleanerTexts == TextsOfLines(MaxTextLines)

CleanerIdle ==
    /\ cleaner_pc = "text"
    /\ text = <<>>
    /\ cleaned_text = <<>>
    /\ cleaned_again = <<>>

CleanerInit ==
    /\ cleaner_pc = "text"
    /\ text \in CleanerTexts
    /\ cleaned_text = <<>>
    /\ cleaned_again = <<>>

\* the ids clients give to /start-automation
AutomationIds == {"a", "b"}

NoEntry == [status |-> "absent"]

\* the responses of GET /automation-status/<id>
NoResponse == [code |-> "none"]
NotFound == [code |-> "404", error |-> "Automation not found"]
Ok(body) == [code |-> "200", body |-> body]

NoPoll ==
    [pc |-> "idle", automation_id |-> "", live |-> FALSE, status |-> NoEntry,
     response |-> NoResponse]

BackendInit ==
    /\ automation_status = [id \in AutomationIds |-> NoEntry]
    /\ threads = <<>>
    /\ reinitialised = {}
    /\ poll = NoPoll

\* the lengths of the page texts, around the length of the preview
SummaryLengths ==
    {0, 1} \cup ((PreviewLength - 1)..(PreviewLength + MaxOverPreview))

\* lists of PageText as the coordinator gives them: pages in ascending
\* order, the first of them page 1 or a later page
CallPages ==
    UNION {[1..n -> SummaryLengths] : n \in 1..MaxSummaryPages}

PageTexts(lengths, first) ==
    [i \in 1..Len(lengths) |->
        [page_number |-> first + i - 1, text |-> Repeat("a", lengths[i])]]

\* the responses: a JSON object or another text, bare or between an opening
\* and a closing fence, with white space around
Margins == {<<>>, <<" ">>}
Breaks == {<<>>, <<Newline>>}
Openings == {<<>>, Fence, FenceJson, Fence \o <<"J", "S", "O", "N">>}
Closings == {<<>>, Fence}
Bodies == ObjectTexts \cup {<<"o", "k">>}

ResponseTexts ==
    {lead \o opening \o b1 \o body \o b2 \o closing \o trail :
        lead \in Margins, opening \in Openings, b1 \in Breaks,
        body \in Bodies, b2 \in Breaks, closing \in Closings,
        trail \in Margins}

NoVerdict == [classification |-> "none"]

CallIdle ==
    /\ call_pc = "pages"
    /\ call_pages = <<>>
    /\ pages_summary = <<>>
    /\ result_text = <<>>
    /\ call_verdict = NoVerdict

CallInit ==
    /\ call_pc = "pages"
    /\ \E lengths \in CallPages, first \in 1..2 :
          call_pages = PageTexts(lengths, first)
    /\ pages_summary = <<>>
    /\ result_text = <<>>
    /\ call_verdict = NoVerdict

Init == SessionInit /\ DirInit /\ CleanerIdle /\ BackendInit /\ CallIdle

----------------------------------------------------------------------------
(* Opening the session *)

\* p.chromium.launch, browser.new_context, context.new_page: before the try
LaunchBrowser ==
    /\ pc = "launch"
    /\ pc' = "goto"
    /\ UNCHANGED <<not_session, TESSERACT_AVAILABLE, files, browser_vars, page_num,
                   pages_extracted, ocr_vars, analysis_vars, final_vars,
                   capture_history>>

\* the same calls raising: nothing catches the exception, the coroutine ends
\* with it and returns no result
LaunchBrowserFails ==
    /\ pc = "launch"
    /\ pc' = "crashed"
    /\ UNCHANGED <<not_session, TESSERACT_AVAILABLE, files, browser_vars, page_num,
                   pages_extracted, ocr_vars, analysis_vars, final_vars,
                   capture_history>>

\* page.goto, the popups and the activation of the reader (their own
\* failures are swallowed)
OpenPreview ==
    /\ pc = "goto"
    /\ pc' = "find_viewer"
    /\ UNCHANGED <<not_session, TESSERACT_AVAILABLE, files, browser_vars, page_num,
                   pages_extracted, ocr_vars, analysis_vars, final_vars,
                   capture_history>>

\* an exception inside the try and outside the viewer loop's own try: the
\* outer except returns the failure result (no RESULT: line), the finally
\* closes the browser
OuterExcept(error) ==
    /\ pc' = "done"
    /\ result' = failure_result(error)
    /\ browser_closed' = TRUE
    /\ UNCHANGED <<not_session, TESSERACT_AVAILABLE, files, viewer_element, page_num,
                   pages_extracted, ocr_vars, analysis_vars, actual_pages,
                   gpt4_result, emitted, final_calls>>

\* page.goto, a wait or the search for the reader element raises
OpenPreviewFails ==
    /\ pc = "goto"
    /\ OuterExcept("goto")
    /\ UNCHANGED capture_history

\* the search for a reader element: found, the viewer loop starts
FindViewer ==
    /\ pc = "find_viewer"
    /\ viewer_element' = TRUE
    /\ pc' = "capture"
    /\ page_num' = 1
    /\ pages_extracted' = 0
    /\ UNCHANGED <<not_session, TESSERACT_AVAILABLE, files, browser_closed, ocr_vars,
                   analysis_vars, final_vars, capture_history>>

\* not found: the full-page loop starts
FindNoViewer ==
    /\ pc = "find_viewer"
    /\ viewer_element' = FALSE
    /\ pc' = "nv_capture"
    /\ page_num' = 1
    /\ UNCHANGED <<not_session, TESSERACT_AVAILABLE, files, browser_closed, pages_extracted,
                   ocr_vars, analysis_vars, final_vars, capture_history>>

----------------------------------------------------------------------------
(* The OCR tasks *)

EngineErrors == {p \in ocr_failed : TESSERACT_AVAILABLE}

\* task i finishes: the engine read the image (outcome "ok") or failed on it
OcrTaskCompletes(i, outcome) ==
    /\ pc \notin {"done", "crashed"}
    /\ i \in 1..Len(ocr_tasks)
    /\ ocr_tasks[i].result = Pending
    /\ outcome = "error" =>
          /\ TESSERACT_AVAILABLE
          /\ Cardinality(EngineErrors) < MaxOcrErrors
    /\ LET image_path == ocr_tasks[i].image_path
           r == extract_text_from_image_async(image_path, TESSERACT_AVAILABLE,
                                              outcome)
       IN /\ ocr_tasks' = [ocr_tasks EXCEPT ![i].result = r]
          /\ ocr_failed' = IF outcome = "error" \/ ~TESSERACT_AVAILABLE
                           THEN ocr_failed \cup {filename_page_num(image_path)}
                           ELSE ocr_failed
    /\ out_of_order' = (out_of_order \/
                        \E j \in 1..(i - 1) : ocr_tasks[j].result = Pending)
    /\ UNCHANGED <<not_session, pc, TESSERACT_AVAILABLE, files, browser_vars, page_num,
                   pages_extracted, analysis_vars, final_vars, capture_history>>

----------------------------------------------------------------------------
(* The capture loops *)

\* a check after every page from the third on
IsPageFromThird(n) == n >= CheckEvery

\* `if page_num >= 3 and page_num % 3 == 0`
IsCheckPage(n) == n >= CheckEvery /\ n % CheckEvery = 0

\* the screenshot of page_num is written and its OCR task created
CaptureAndDispatch ==
    /\ files' = files \cup {page_num}
    /\ ocr_tasks' = Append(ocr_tasks, create_task(screenshot_path(page_num)))
    /\ attempted' = attempted \cup {page_num}
    /\ captured' = captured \cup {page_num}

\* an early-stop check that calls the classifier on any number of results
EarlyAnalysisAnyCount(response) ==
    /\ AllDone(Prefix(ocr_tasks, page_num))
    /\ LET contents == collect_page_contents(Prefix(ocr_tasks, page_num))
           verdict == analyze_book_with_gpt4(contents, response)
       IN /\ page_contents' = contents
          /\ checks' = checks \cup
                {[at |-> page_num,
                  awaited |-> Len(Prefix(ocr_tasks, page_num)),
                  called |-> TRUE]}
          /\ last_call' = [phase |-> "early", at |-> page_num,
                           response |-> response.kind,
                           input |-> contents, verdict |-> verdict]
          /\ stopped_early' = early_stop(verdict, page_num)

\* one early-stop check on the tasks created so far, with the model answering
\* response: with 3 results or more the classifier is called, its verdict
\* kept, and the loop breaks if the target page is there; with fewer, no call
EarlyAnalysis(response) ==
    /\ AllDone(Prefix(ocr_tasks, page_num))
    /\ LET contents == collect_page_contents(Prefix(ocr_tasks, page_num))
           verdict == analyze_book_with_gpt4(contents, response)
       IN /\ page_contents' = contents
          /\ checks' = checks \cup
                {[at |-> page_num,
                  awaited |-> Len(Prefix(ocr_tasks, page_num)),
                  called |-> Len(contents) >= MinPagesToAnalyze]}
          /\ IF Len(contents) >= MinPagesToAnalyze
             THEN /\ last_call' = [phase |-> "early", at |-> page_num,
                                   response |-> response.kind,
                                   input |-> contents, verdict |-> verdict]
                  /\ stopped_early' = early_stop(verdict, page_num)
             ELSE UNCHANGED <<last_call, stopped_early>>

(* the full-page loop, entered when no reader element was found *)

NvCapture ==
    /\ pc = "nv_capture"
    /\ CaptureAndDispatch
    /\ pc' = IF IsCheckPage(page_num) THEN "nv_check" ELSE "nv_navigate"
    /\ UNCHANGED <<not_session, TESSERACT_AVAILABLE, browser_vars, page_num, pages_extracted,
                   ocr_failed, out_of_order, analysis_vars, final_vars,
                   nav_requests>>

\* page.evaluate or page.screenshot raises: this loop has no try of its own
NvCaptureFails ==
    /\ pc = "nv_capture"
    /\ attempted' = attempted \cup {page_num}
    /\ OuterExcept("capture")
    /\ UNCHANGED <<captured, nav_requests>>

\* a check of the full-page loop whose early stop does not leave the loop
NvEarlyCheckNoBreak(response) ==
    /\ pc = "nv_check"
    /\ EarlyAnalysis(response)
    /\ pc' = "nv_navigate"
    /\ UNCHANGED <<not_session, TESSERACT_AVAILABLE, files, browser_vars, page_num,
                   pages_extracted, ocr_vars, final_vars, capture_history>>

NvEarlyCheck(response) ==
    /\ pc = "nv_check"
    /\ EarlyAnalysis(response)
    /\ pc' = IF stopped_early' THEN "nv_close" ELSE "nv_navigate"
    /\ UNCHANGED <<not_session, TESSERACT_AVAILABLE, files, browser_vars, page_num,
                   pages_extracted, ocr_vars, final_vars, capture_history>>

\* a key press asks for the next page; whether it worked changes nothing
NvNavigate ==
    /\ pc = "nv_navigate"
    /\ page_num < max_pages
    /\ nav_requests' = nav_requests \cup {page_num}
    /\ page_num' = page_num + 1
    /\ pc' = "nv_capture"
    /\ UNCHANGED <<not_session, TESSERACT_AVAILABLE, files, browser_vars, pages_extracted,
                   ocr_vars, analysis_vars, final_vars, attempted, captured>>

NvLastPage ==
    /\ pc = "nv_navigate"
    /\ page_num = max_pages
    /\ pc' = "nv_close"
    /\ UNCHANGED <<not_session, TESSERACT_AVAILABLE, files, browser_vars, page_num,
                   pages_extracted, ocr_vars, analysis_vars, final_vars,
                   capture_history>>

\* the full-page loop ending without its browser.close()
NvCloseBrowserOpen ==
    /\ pc = "nv_close"
    /\ browser_closed' = FALSE
    /\ pages_extracted' = 0
    /\ page_num' = 1
    /\ pc' = "capture"
    /\ UNCHANGED <<not_session, TESSERACT_AVAILABLE, files, viewer_element, ocr_vars,
                   analysis_vars, final_vars, capture_history>>

\* await browser.close(); pages_extracted = max_pages; then control falls
\* through to the viewer loop: pages_extracted = 0, page_num from 1
NvClose ==
    /\ pc = "nv_close"
    /\ browser_closed' = TRUE
    /\ pages_extracted' = 0
    /\ page_num' = 1
    /\ pc' = "capture"
    /\ UNCHANGED <<not_session, TESSERACT_AVAILABLE, files, viewer_element, ocr_vars,
                   analysis_vars, final_vars, capture_history>>

(* the viewer loop *)

\* a capture that first awaits the OCR tasks created so far
CaptureAfterOcr ==
    /\ pc = "capture"
    /\ ~browser_closed
    /\ AllDone(ocr_tasks)
    /\ CaptureAndDispatch
    /\ pages_extracted' = pages_extracted + 1
    /\ pc' = IF IsCheckPage(page_num) THEN "check" ELSE "navigate"
    /\ UNCHANGED <<not_session, TESSERACT_AVAILABLE, browser_vars, page_num,
                   ocr_failed, out_of_order, analysis_vars, final_vars,
                   nav_requests>>

Capture ==
    /\ pc = "capture"
    /\ ~browser_closed
    /\ CaptureAndDispatch
    /\ pages_extracted' = pages_extracted + 1
    /\ pc' = IF IsCheckPage(page_num) THEN "check" ELSE "navigate"
    /\ UNCHANGED <<not_session, TESSERACT_AVAILABLE, browser_vars, page_num, ocr_failed,
                   out_of_order, analysis_vars, final_vars, nav_requests>>

\* a failed page tried again instead of skipped
CaptureFailsRetry ==
    /\ pc = "capture"
    /\ attempted' = attempted \cup {page_num}
    /\ page_num' = page_num /\ pc' = "capture"
    /\ UNCHANGED <<not_session, TESSERACT_AVAILABLE, files, browser_vars, pages_extracted,
                   ocr_vars, analysis_vars, final_vars, captured, nav_requests>>

\* an exception before the screenshot is taken (always, on a closed browser):
\* the loop's except logs it and continues with the next page_num
CaptureFails ==
    /\ pc = "capture"
    /\ attempted' = attempted \cup {page_num}
    /\ IF page_num < max_pages
       THEN page_num' = page_num + 1 /\ pc' = "capture"
       ELSE page_num' = page_num /\ pc' = "finalize"
    /\ UNCHANGED <<not_session, TESSERACT_AVAILABLE, files, browser_vars, pages_extracted,
                   ocr_vars, analysis_vars, final_vars, captured, nav_requests>>

EarlyCheck(response) ==
    /\ pc = "check"
    /\ EarlyAnalysis(response)
    /\ pc' = IF stopped_early' THEN "finalize" ELSE "navigate"
    /\ UNCHANGED <<not_session, TESSERACT_AVAILABLE, files, browser_vars, page_num,
                   pages_extracted, ocr_vars, final_vars, capture_history>>

\* a Next button or a key press asks for the next page; a failure is logged
Navigate ==
    /\ pc = "navigate"
    /\ page_num < max_pages
    /\ nav_requests' = nav_requests \cup {page_num}
    /\ page_num' = page_num + 1
    /\ pc' = "capture"
    /\ UNCHANGED <<not_session, TESSERACT_AVAILABLE, files, browser_vars, pages_extracted,
                   ocr_vars, analysis_vars, final_vars, attempted, captured>>

LastPage ==
    /\ pc = "navigate"
    /\ page_num = max_pages
    /\ pc' = "finalize"
    /\ UNCHANGED <<not_session, TESSERACT_AVAILABLE, files, browser_vars, page_num,
                   pages_extracted, ocr_vars, analysis_vars, final_vars,
                   capture_history>>

----------------------------------------------------------------------------
(* Finalization *)

\* finally: await browser.close(); then the listing of temp/screenshots
CloseAndList ==
    /\ pc = "finalize"
    /\ browser_closed' = TRUE
    /\ actual_pages' = Cardinality(files)
    /\ pc' = "ocr_wait"
    /\ UNCHANGED <<not_session, TESSERACT_AVAILABLE, files, viewer_element, page_num,
                   pages_extracted, ocr_vars, analysis_vars, gpt4_result,
                   result, emitted, final_calls, capture_history>>

\* if ocr_tasks: await asyncio.gather(*ocr_tasks, ...); the dicts, sorted
FinalGather ==
    /\ pc = "ocr_wait"
    /\ AllDone(ocr_tasks)
    /\ page_contents' = collect_page_contents(ocr_tasks)
    /\ pc' = "gpt4"
    /\ UNCHANGED <<not_session, TESSERACT_AVAILABLE, files, browser_vars, page_num,
                   pages_extracted, ocr_vars, last_call, stopped_early,
                   checks, final_vars, capture_history>>

\* the result is printed as the RESULT: line and returned
EmitResult(verdict) ==
    LET selected == selected_page_of(verdict.selected_page, page_contents)
        r == success_result(actual_pages, files, verdict, selected,
                            page_contents)
    IN /\ gpt4_result' = verdict
       /\ result' = r
       /\ emitted' = Append(emitted, r)
       /\ pc' = "done"

\* if page_contents: the final call of the classifier, and the result
FinalAnalysis(response) ==
    /\ pc = "gpt4"
    /\ page_contents # <<>>
    /\ LET verdict == analyze_book_with_gpt4(page_contents, response) IN
       /\ EmitResult(verdict)
       /\ last_call' = [phase |-> "final", at |-> page_num,
                        response |-> response.kind, input |-> page_contents,
                        verdict |-> verdict]
    /\ final_calls' = final_calls + 1
    /\ UNCHANGED <<not_session, TESSERACT_AVAILABLE, files, browser_vars, page_num,
                   pages_extracted, ocr_vars, page_contents, stopped_early,
                   checks, actual_pages, capture_history>>

\* no PageText at all: no call, the result reports the initial gpt4_result
NoFinalAnalysis ==
    /\ pc = "gpt4"
    /\ page_contents = <<>>
    /\ EmitResult(gpt4_result)
    /\ UNCHANGED <<not_session, TESSERACT_AVAILABLE, files, browser_vars, page_num,
                   pages_extracted, ocr_vars, analysis_vars, actual_pages,
                   final_calls, capture_history>>

----------------------------------------------------------------------------
(* The specification *)

OcrOutcomes == {"ok", "error"}

Next ==
    \/ LaunchBrowser
    \/ LaunchBrowserFails
    \/ OpenPreview
    \/ OpenPreviewFails
    \/ FindViewer
    \/ FindNoViewer
    \/ \E i \in 1..MaxPages, outcome \in OcrOutcomes : OcrTaskCompletes(i, outcome)
    \/ NvCapture
    \/ NvCaptureFails
    \/ \E response \in Responses : NvEarlyCheck(response)
    \/ NvNavigate
    \/ NvLastPage
    \/ NvClose
    \/ Capture
    \/ CaptureFails
    \/ \E response \in Responses : EarlyCheck(response)
    \/ Navigate
    \/ LastPage
    \/ CloseAndList
    \/ FinalGather
    \/ \E response \in Responses : FinalAnalysis(response)
    \/ NoFinalAnalysis

Spec == Init /\ [][Next]_vars

\* the event loop and the thread pool keep running what can run, and every
\* capture, OCR task and classifier call returns
FairSpec == Spec /\ WF_vars(Next)

----------------------------------------------------------------------------
(* Concurrent sessions and temp/screenshots *)

\* session s captures its next page: page.screenshot(path=screenshot_path)
\* writes screenshots_dir/page_{page_num}.png, replacing what is there, and
\* the OCR task of that path is created
SessionCapture(s) ==
    LET n == session_page_num[s] IN
    /\ n \in DirPages
    /\ screenshots_dir' = [screenshots_dir EXCEPT
                              ![filename_page_num(screenshot_path(n))] = Append(@, s)]
    /\ session_ocr_tasks' = [session_ocr_tasks EXCEPT ![s] = @ \cup {n}]
    /\ session_page_num' = [session_page_num EXCEPT ![s] = n + 1]
    /\ UNCHANGED <<not_dir, images_read>>

\* the OCR task of session s for page n runs in its thread: Image.open reads
\* what the file holds then
SessionRunOcr(s, n) ==
    /\ n \in session_ocr_tasks[s]
    /\ LET writers == screenshots_dir[filename_page_num(screenshot_path(n))] IN
       images_read' = images_read \cup
           {[session |-> s, page |-> n, written_by |-> writers[Len(writers)]]}
    /\ session_ocr_tasks' = [session_ocr_tasks EXCEPT ![s] = @ \ {n}]
    /\ UNCHANGED <<not_dir, screenshots_dir, session_page_num>>

SharedDirNext ==
    \/ \E s \in Sessions : SessionCapture(s)
    \/ \E s \in Sessions, n \in DirPages : SessionRunOcr(s, n)

SharedDirInit ==
    SessionIdle /\ DirInit /\ CleanerIdle /\ BackendInit /\ CallIdle

SharedDirSpec == SharedDirInit /\ [][SharedDirNext]_vars

----------------------------------------------------------------------------
(* The cleaner at work *)

\* cleaned_text = clean_ocr_text(text), as run_ocr calls it
CleanText ==
    /\ cleaner_pc = "text"
    /\ cleaned_text' = clean_ocr_text(text)
    /\ cleaner_pc' = "cleaned"
    /\ UNCHANGED <<not_cleaner, text, cleaned_again>>

\* the cleaner on its own output
CleanAgain ==
    /\ cleaner_pc = "cleaned"
    /\ cleaned_again' = clean_ocr_text(cleaned_text)
    /\ cleaner_pc' = "cleaned_again"
    /\ UNCHANGED <<not_cleaner, text, cleaned_text>>

CleanerNext == CleanText \/ CleanAgain

CleanerSpecInit ==
    SessionIdle /\ DirInit /\ CleanerInit /\ BackendInit /\ CallIdle

CleanerSpec == CleanerSpecInit /\ [][CleanerNext]_vars

----------------------------------------------------------------------------
(* The backend: start_automation and run_browser_automation_http *)

\* what json.loads gives for the lines of the process: PROGRESS: lines, with a
\* screenshot or without, and the RESULT: line
ProgressLines ==
    {[description |-> "step", screenshot |-> Null],
     [description |-> "page", screenshot |-> Some("page.png")]}

ResultLines == {"result"}

Unfinished(t) == threads[t].pc # "finished"

\* an update under automation_lock of the entry of thread t's automation_id
UpdateEntry(t, entry) ==
    automation_status' =
        [automation_status EXCEPT ![threads[t].automation_id] = entry]

EntryOf(t) == automation_status[threads[t].automation_id]

\* POST /start-automation with the fields it asks for: the entry of the id is
\* set, whatever was there, and the thread is started
start_automation(automation_id) ==
    /\ Len(threads) < MaxThreads
    /\ automation_status' =
           [automation_status EXCEPT ![automation_id] =
               [status |-> "running", progress |-> Null, result |-> Null,
                error |-> Null, url |-> "preview_url", screenshot |-> "",
                started_at |-> Len(threads) + 1]]
    /\ threads' = Append(threads, [automation_id |-> automation_id,
                                   pc |-> "start", result |-> Null,
                                   returncode |-> None,
                                   process |-> "none", stderr |-> 0])
    /\ reinitialised' =
           IF \E t \in 1..Len(threads) :
                  threads[t].automation_id = automation_id /\ Unfinished(t)
           THEN reinitialised \cup {automation_id}
           ELSE reinitialised
    /\ poll' = IF /\ poll.pc = "holding"
                  /\ poll.live
                  /\ poll.automation_id = automation_id
               THEN [poll EXCEPT !.live = FALSE,
                                 !.status = automation_status[automation_id]]
               ELSE poll
    /\ UNCHANGED not_backend

\* the thread's first update, then Popen
ThreadStarts(t) ==
    /\ t \in 1..Len(threads)
    /\ threads[t].pc = "start"
    /\ UpdateEntry(t, [EntryOf(t) EXCEPT !.status = "running",
                                         !.progress = Some("starting"),
                                         !.url = "preview_url"])
    /\ threads' = [threads EXCEPT ![t].pc = "reading",
                                  ![t].process = "running"]
    /\ UNCHANGED <<not_backend, reinitialised, poll>>

\* the extractor process writes to its stderr pipe, which holds MaxStderr
\* writes and which the thread does not read before process.communicate()
ExtractorWritesStderr(t) ==
    /\ t \in 1..Len(threads)
    /\ threads[t].pc = "reading"
    /\ threads[t].process = "running"
    /\ threads[t].stderr < MaxStderr
    /\ threads' = [threads EXCEPT ![t].stderr = @ + 1]
    /\ UNCHANGED <<not_backend, automation_status, reinitialised, poll>>

\* a write to the full stderr pipe blocks the extractor
ExtractorBlocks(t) ==
    /\ t \in 1..Len(threads)
    /\ threads[t].pc = "reading"
    /\ threads[t].process = "running"
    /\ threads[t].stderr = MaxStderr
    /\ threads' = [threads EXCEPT ![t].process = "blocked"]
    /\ UNCHANGED <<not_backend, automation_status, reinitialised, poll>>

\* the extractor process ends, with returncode
ExtractorExits(t, returncode) ==
    /\ t \in 1..Len(threads)
    /\ threads[t].pc = "reading"
    /\ threads[t].process = "running"
    /\ threads' = [threads EXCEPT ![t].process = "exited",
                                  ![t].returncode = returncode]
    /\ UNCHANGED <<not_backend, automation_status, reinitialised, poll>>

\* readline gives a PROGRESS: line: progress and url are updated
ReadProgress(t, progress_data) ==
    /\ t \in 1..Len(threads)
    /\ threads[t].pc = "reading"
    /\ threads[t].process = "running"
    /\ UpdateEntry(t, [EntryOf(t) EXCEPT
                          !.progress = Some(progress_data.description),
                          !.url = "progress_url"])
    /\ threads' = [threads EXCEPT
                      ![t].pc = IF progress_data.screenshot # Null
                                THEN "screenshot" ELSE "reading"]
    /\ UNCHANGED <<not_backend, reinitialised, poll>>

\* the screenshot of that line, under the lock taken a second time
SetScreenshot(t) ==
    /\ t \in 1..Len(threads)
    /\ threads[t].pc = "screenshot"
    /\ UpdateEntry(t, [EntryOf(t) EXCEPT !.screenshot = "page.png"])
    /\ threads' = [threads EXCEPT ![t].pc = "reading"]
    /\ UNCHANGED <<not_backend, reinitialised, poll>>

\* readline gives the RESULT: line: kept in the local result
ReadResult(t, line) ==
    /\ t \in 1..Len(threads)
    /\ threads[t].pc = "reading"
    /\ threads[t].process = "running"
    /\ threads' = [threads EXCEPT ![t].result = Some(line)]
    /\ UNCHANGED <<not_backend, automation_status, reinitialised, poll>>

\* readline gives '' and process.poll() is not None: the process has ended
ReadEnd(t) ==
    /\ t \in 1..Len(threads)
    /\ threads[t].pc = "reading"
    /\ threads[t].process = "exited"
    /\ threads' = [threads EXCEPT ![t].pc = "exited"]
    /\ UNCHANGED <<not_backend, automation_status, reinitialised, poll>>

\* after process.communicate(): completed with the local result, or error
\* with what stderr held
ThreadFinishes(t) ==
    /\ t \in 1..Len(threads)
    /\ threads[t].pc = "exited"
    /\ UpdateEntry(t, IF threads[t].returncode = 0
                      THEN [EntryOf(t) EXCEPT !.status = "completed",
                                              !.result = threads[t].result]
                      ELSE [EntryOf(t) EXCEPT
                              !.status = "error",
                              !.error = IF threads[t].stderr > 0
                                        THEN Some("stderr")
                                        ELSE Some("Unknown error occurred")])
    /\ threads' = [threads EXCEPT ![t].pc = "finished", ![t].stderr = 0]
    /\ UNCHANGED <<not_backend, reinitialised, poll>>

\* Popen or a read raises: the except branch
ThreadRaises(t) ==
    /\ t \in 1..Len(threads)
    /\ threads[t].pc = "reading"
    /\ UpdateEntry(t, [EntryOf(t) EXCEPT !.status = "error",
                                         !.error = Some("exception")])
    /\ threads' = [threads EXCEPT ![t].pc = "finished"]
    /\ UNCHANGED <<not_backend, reinitialised, poll>>

\* GET /automation-status/<id>, up to the end of the lock: status is the
\* dict of the id, and without one the response is 404
get_automation_status(automation_id) ==
    /\ poll.pc \in {"idle", "returned"}
    /\ poll' = IF automation_status[automation_id] = NoEntry
               THEN [NoPoll EXCEPT !.pc = "returned",
                                   !.automation_id = automation_id,
                                   !.response = NotFound]
               ELSE [pc |-> "holding", automation_id |-> automation_id,
                     live |-> TRUE,
                     status |-> automation_status[automation_id],
                     response |-> NoResponse]
    /\ UNCHANGED <<not_backend, automation_status, threads, reinitialised>>

\* return jsonify(status), outside the lock: the dict is serialized as it is
\* at that moment (its items are taken in one call, sorted(dct.items()))
jsonify_status ==
    /\ poll.pc = "holding"
    /\ poll' = [NoPoll EXCEPT
                  !.pc = "returned",
                  !.automation_id = poll.automation_id,
                  !.response = Ok(IF poll.live
                                  THEN automation_status[poll.automation_id]
                                  ELSE poll.status)]
    /\ UNCHANGED <<not_backend, automation_status, threads, reinitialised>>

Returncodes == {0, 1}

BackendNext ==
    \/ \E automation_id \in AutomationIds : start_automation(automation_id)
    \/ \E t \in 1..MaxThreads : ThreadStarts(t)
    \/ \E t \in 1..MaxThreads, progress_data \in ProgressLines :
          ReadProgress(t, progress_data)
    \/ \E t \in 1..MaxThreads : SetScreenshot(t)
    \/ \E t \in 1..MaxThreads, line \in ResultLines : ReadResult(t, line)
    \/ \E t \in 1..MaxThreads : ExtractorWritesStderr(t)
    \/ \E t \in 1..MaxThreads : ExtractorBlocks(t)
    \/ \E t \in 1..MaxThreads, returncode \in Returncodes :
          ExtractorExits(t, returncode)
    \/ \E t \in 1..MaxThreads : ReadEnd(t)
    \/ \E t \in 1..MaxThreads : ThreadFinishes(t)
    \/ \E t \in 1..MaxThreads : ThreadRaises(t)
    \/ \E automation_id \in AutomationIds :
          get_automation_status(automation_id)
    \/ jsonify_status

BackendSpecInit ==
    SessionIdle /\ DirInit /\ CleanerIdle /\ BackendInit /\ CallIdle

BackendSpec == BackendSpecInit /\ [][BackendNext]_vars

\* what the scheduler owes thread t: the next step of its function, as long
\* as no call it waits in is blocked
ThreadStep(t) ==
    \/ ThreadStarts(t)
    \/ \E progress_data \in ProgressLines : ReadProgress(t, progress_data)
    \/ SetScreenshot(t)
    \/ ReadEnd(t)
    \/ ThreadFinishes(t)

\* an extractor whose writes are not blocked comes to its end
ExtractorTerminates(t) ==
    \E returncode \in Returncodes : ExtractorExits(t, returncode)

FairBackendSpec ==
    /\ BackendSpec
    /\ \A t \in 1..MaxThreads :
          WF_vars(ThreadStep(t)) /\ WF_vars(ExtractorTerminates(t))

----------------------------------------------------------------------------
(* One call of the classifier: the summary of the prompt, and the response *)

\* the loop over enumerate(all_pages, 1)
BuildSummary ==
    /\ call_pc = "pages"
    /\ pages_summary' = pages_summary_of(call_pages)
    /\ call_pc' = "summary"
    /\ UNCHANGED <<not_call, call_pages, result_text, call_verdict>>

\* the response arrives with content as its text: the fences are removed,
\* the text is parsed, and the verdict, or the except branch's, is returned
ParseResponse(content) ==
    /\ call_pc = "summary"
    /\ result_text' = content
    /\ call_verdict' =
           analyze_book_with_gpt4(call_pages, parse_response(content))
    /\ call_pc' = "parsed"
    /\ UNCHANGED <<not_call, call_pages, pages_summary>>

CallNext ==
    \/ BuildSummary
    \/ \E content \in ResponseTexts : ParseResponse(content)

CallSpecInit ==
    SessionIdle /\ DirInit /\ CleanerIdle /\ BackendInit /\ CallInit

CallSpec == CallSpecInit /\ [][CallNext]_vars

----------------------------------------------------------------------------
(* Properties *)

Returned == result # NoResult
Succeeded == Returned /\ result.success
Called == last_call # NoCall

IsSortedByPageNumber(contents) ==
    \A i \in 1..(Len(contents) - 1) :
        contents[i].page_number <= contents[i + 1].page_number

RECURSIVE InsertAscending(_, _)
InsertAscending(x, s) ==
    IF s = <<>> THEN <<x>>
    ELSE IF x < Head(s) THEN <<x>> \o s
         ELSE <<Head(s)>> \o InsertAscending(x, Tail(s))

RECURSIVE SortedAscending(_)
SortedAscending(s) ==
    IF s = <<>> THEN <<>> ELSE InsertAscending(Head(s), SortedAscending(Tail(s)))

\* the selection rule of the classifier step, on content_pages sorted ascending
RuleSelectedPage(classification, content_pages) ==
    LET sorted == SortedAscending(content_pages) IN
    IF classification = "non-fiction" /\ Len(sorted) >= 1 THEN sorted[1]
    ELSE IF classification = "fiction" /\ Len(sorted) >= 2 THEN sorted[2]
    ELSE IF classification = "fiction" /\ Len(sorted) = 1 THEN sorted[1]
    ELSE None

\* the text an OCR task of page p must end with
ExpectedText(p) == IF p \in ocr_failed THEN <<>> ELSE recognized_text(p)

\* C1: after an early-stop check at page k whose verdict carries a
\* selected_page in 1..k, no page beyond k is captured and no navigation is
\* requested from page k.
C1_StopsOnSelectedPage ==
    (Called /\ last_call.phase = "early"
            /\ last_call.verdict.selected_page \in 1..last_call.at)
    => /\ \A p \in captured : p <= last_call.at
       /\ last_call.at \notin nav_requests

\* C2: the selected_page of every verdict the classifier step returns, and
\* the selected_page_number of the result, is what the selection rule gives
\* for the verdict's classification and content_pages.
C2_SelectedPageFollowsRule ==
    /\ Called =>
          last_call.verdict.selected_page =
              RuleSelectedPage(last_call.verdict.classification,
                               last_call.verdict.content_pages)
    /\ Succeeded =>
          result.selected_page_number =
              RuleSelectedPage(result.classification, result.content_pages)

\* C3: in a result with a selected page, selected_page_content is the text of
\* the entry of all_pages whose page_number is selected_page_number.
C3_ContentOfSelectedPageNumber ==
    (Succeeded /\ result.selected_page_number # None) =>
        \A i \in 1..Len(result.all_pages) :
            result.all_pages[i].page_number = result.selected_page_number
            => result.selected_page_content = Some(result.all_pages[i].text)

\* C4: every list handed to the classifier, and all_pages of the result, is
\* sorted ascending by page_number, whatever order the OCR tasks finished in.
C4_ListsSortedByPageNumber ==
    /\ Called => IsSortedByPageNumber(last_call.input)
    /\ Succeeded => IsSortedByPageNumber(result.all_pages)

\* C4 witness: a result of three pages or more whose OCR tasks finished out
\* of the order they were created in.
C4_Witness ==
    /\ Succeeded
    /\ out_of_order
    /\ Called /\ last_call.phase = "final"
    /\ Len(result.all_pages) >= 3

\* C5 as claimed: every successful result comes after the completion of every
\* OCR task and after exactly one final classifier call on the complete
\* sorted list, and reports that call's verdict.
C5_OneFinalCallAlways ==
    Succeeded =>
        /\ \A i \in 1..Len(ocr_tasks) : ocr_tasks[i].result.kind # "pending"
        /\ final_calls = 1
        /\ last_call.phase = "final"
        /\ last_call.input = result.all_pages
        /\ Len(result.all_pages) = Len(ocr_tasks)
        /\ IsSortedByPageNumber(result.all_pages)
        /\ result.classification = last_call.verdict.classification
        /\ result.content_pages = last_call.verdict.content_pages
        /\ result.selected_page_number = last_call.verdict.selected_page

\* C5 as amended: the same when at least one page was captured; with no page
\* captured there is no classifier call after capture and the result reports
\* the default verdict: unknown, no content pages, no selected page.
C5_OneFinalCallIfPages ==
    Succeeded =>
        /\ \A i \in 1..Len(ocr_tasks) : ocr_tasks[i].result.kind # "pending"
        /\ Len(result.all_pages) = Len(ocr_tasks)
        /\ IsSortedByPageNumber(result.all_pages)
        /\ IF ocr_tasks # <<>>
           THEN /\ final_calls = 1
                /\ last_call.phase = "final"
                /\ last_call.input = result.all_pages
                /\ result.classification = last_call.verdict.classification
                /\ result.content_pages = last_call.verdict.content_pages
                /\ result.selected_page_number = last_call.verdict.selected_page
           ELSE /\ final_calls = 0
                /\ result.classification = "unknown"
                /\ result.content_pages = <<>>
                /\ result.selected_page_number = None

\* C5 witness: a session that stopped early at the page-3 check, with an OCR
\* task that finished late, and made its one final call.
C5_Witness ==
    /\ Succeeded
    /\ stopped_early
    /\ out_of_order
    /\ final_calls = 1
    /\ Len(result.all_pages) = 3

\* C6: a session in which the capture of a page k < max_pages failed went on
\* to attempt page k+1 and ended with success: true and
\* without page k among its files.
C6_CaptureFailureNonFatal ==
    pc = "done" =>
        \A k \in attempted \ captured :
            k < max_pages =>
                /\ Succeeded
                /\ (k + 1) \in attempted
                /\ k \notin result.files

\* C7: an OCR task never ends with an exception; it ends with the PageText of
\* its own page, with empty text if OCR failed on it and the page's text if
\* not; and every page given to OCR is in all_pages with that PageText.
C7_OcrFailureIsLocal ==
    /\ \A i \in 1..Len(ocr_tasks) :
          LET r == ocr_tasks[i].result
              p == filename_page_num(ocr_tasks[i].image_path)
          IN /\ r.kind \in {"pending", "dict"}
             /\ r.kind = "dict" =>
                   /\ r.page_number = p
                   /\ r.text = ExpectedText(p)
             /\ Succeeded =>
                   \E j \in 1..Len(result.all_pages) :
                       /\ result.all_pages[j].page_number = p
                       /\ result.all_pages[j].text = ExpectedText(p)
    /\ pc = "crashed" => ocr_tasks = <<>>

\* C7 witness: a successful result, the engine installed, with a page whose
\* OCR failed and another whose OCR gave its text.
C7_Witness ==
    /\ Succeeded
    /\ TESSERACT_AVAILABLE
    /\ \E p \in ocr_failed, q \in captured \ ocr_failed :
          \E i, j \in 1..Len(result.all_pages) :
              /\ result.all_pages[i].page_number = p
              /\ result.all_pages[i].text = <<>>
              /\ result.all_pages[j].page_number = q
              /\ result.all_pages[j].text = recognized_text(q)

\* C8: with the OCR engine unavailable, a successful result has only empty
\* texts and reports the verdict unknown with no selected page.
C8_DegradedOcrUnknown ==
    (Succeeded /\ ~TESSERACT_AVAILABLE) =>
        /\ \A i \in 1..Len(result.all_pages) : result.all_pages[i].text = <<>>
        /\ result.classification = "unknown"
        /\ result.selected_page_number = None
        /\ result.selected_page_content = Null

\* C9: a classifier call whose request failed or whose answer was no JSON
\* returns the verdict unknown, no content pages, no selected page, the error
\* as reasoning; at an early-stop check it does not stop capture; at
\* finalization the result is emitted with success: true and no selected page.
C9_ClassifierFailureContained ==
    (Called /\ last_call.response # "json") =>
        /\ last_call.verdict.classification = "unknown"
        /\ last_call.verdict.content_pages = <<>>
        /\ last_call.verdict.selected_page = None
        /\ last_call.verdict.reasoning = <<"Error", last_call.response>>
        /\ last_call.phase = "early" => ~stopped_early
        /\ last_call.phase = "final" =>
              /\ Succeeded
              /\ emitted = <<result>>
              /\ result.classification = "unknown"
              /\ result.selected_page_number = None
              /\ result.selected_page_content = Null

\* C9 witness: the final call's answer was malformed, after an earlier part of
\* the session in which capture went on to the page cap.
C9_Witness ==
    /\ Called
    /\ last_call.phase = "final"
    /\ last_call.response = "malformed_json"
    /\ captured = 1..max_pages
    /\ Succeeded

\* C10: every session that has ended has returned one result and emitted it:
\* the failure result after a total failure, a success result otherwise.
C10_AlwaysOneResult ==
    pc \in {"done", "crashed"} =>
        /\ Returned
        /\ emitted = <<result>>
        /\ ~result.success =>
              /\ result.pages_extracted = 0
              /\ captured = {}

\* C11: a session that captured a page and ended has a result with success:
\* true holding every captured page, in all_pages and among its files; a
\* result with success: false comes only from a session that captured no page.
C11_PartialResultIsSuccess ==
    /\ (pc = "done" /\ captured # {}) =>
          /\ Succeeded
          /\ captured \subseteq result.files
          /\ \A p \in captured :
                \E i \in 1..Len(result.all_pages) :
                    result.all_pages[i].page_number = p
    /\ (Returned /\ ~result.success) => captured = {}

\* C13: in every result with success: true, pages_extracted is the number of
\* pages this session captured, which is the number of OCR tasks it created,
\* whatever files were in the directory before.
C13_PagesExtractedCountsCaptures ==
    Succeeded =>
        /\ result.pages_extracted = Cardinality(captured)
        /\ Cardinality(captured) = Len(ocr_tasks)

\* the page numbers of a list of OCR tasks, in order
TaskPages(tasks) ==
    [i \in 1..Len(tasks) |-> filename_page_num(tasks[i].image_path)]

NoRepeat(s) == \A i, j \in 1..Len(s) : i # j => s[i] # s[j]

PageNumbers(contents) ==
    [i \in 1..Len(contents) |-> contents[i].page_number]

\* C14: there is one OCR task per captured page and none for any other page,
\* no page number is given to OCR twice, no two entries of a PageText list
\* share a page_number, and the result has one entry per captured page; also
\* after the full-page loop, when control falls through to the viewer loop.
C14_OneTaskPerCapturedPage ==
    /\ Len(ocr_tasks) = Cardinality(captured)
    /\ NoRepeat(TaskPages(ocr_tasks))
    /\ {TaskPages(ocr_tasks)[i] : i \in 1..Len(ocr_tasks)} = captured
    /\ NoRepeat(PageNumbers(page_contents))
    /\ Succeeded =>
          /\ NoRepeat(PageNumbers(result.all_pages))
          /\ {result.all_pages[i].page_number : i \in 1..Len(result.all_pages)}
                = captured

\* C14 witness: a result of a session that found no reader element, captured
\* every page up to the cap in the full-page loop and then went through the
\* viewer loop.
C14_Witness ==
    /\ Succeeded
    /\ ~viewer_element
    /\ captured = 1..max_pages
    /\ Len(result.all_pages) = max_pages

StrictlyIncreasing(s) == \A i \in 1..(Len(s) - 1) : s[i] < s[i + 1]

\* C20: the content_pages of every verdict the classifier step returns is
\* strictly increasing, so the early-stop target is the lowest content page
\* (non-fiction) or the second-lowest (fiction).
C20_ContentPagesAscending ==
    Called =>
        LET verdict == last_call.verdict
            sorted == SortedAscending(verdict.content_pages)
        IN /\ StrictlyIncreasing(verdict.content_pages)
           /\ (verdict.classification = "non-fiction" /\ Len(sorted) >= 1)
                 => target_page(verdict) = sorted[1]
           /\ (verdict.classification = "fiction" /\ Len(sorted) >= 2)
                 => target_page(verdict) = sorted[2]

\* the pages captured up to page k
CapturedUpTo(k) == {p \in captured : p <= k}

\* C15 as claimed: a session that has just captured its 3rd, 6th, ... page
\* has, before it goes on, awaited every OCR task created so far and called
\* the classifier on their results.
C15_CheckAfterEveryThirdCapture ==
    (/\ pc \in {"navigate", "nv_navigate"}
     /\ Cardinality(captured) >= CheckEvery
     /\ Cardinality(captured) % CheckEvery = 0)
    => \E c \in checks :
          /\ c.at = page_num
          /\ c.awaited = Len(ocr_tasks)
          /\ c.called

\* C15 as amended: the check follows the capture of every page whose
\* page_num is 3, 6, 9, ... and of no other page; it awaits every task
\* created so far and calls the classifier on their sorted results if there
\* are 3 of them or more, before another page is captured.
C15_CheckAfterEveryThirdPageNumber ==
    /\ \A c \in checks :
          /\ c.at \in captured
          /\ c.at >= CheckEvery /\ c.at % CheckEvery = 0
          /\ c.awaited = Cardinality(CapturedUpTo(c.at))
          /\ c.called = (c.awaited >= MinPagesToAnalyze)
    /\ \A k \in captured :
          (k >= CheckEvery /\ k % CheckEvery = 0) =>
              \/ pc \in {"check", "nv_check"} /\ page_num = k
              \/ \E c \in checks : c.at = k
    /\ (/\ pc \in {"navigate", "nv_navigate"}
        /\ page_num >= CheckEvery /\ page_num % CheckEvery = 0) =>
          /\ \A i \in 1..Len(ocr_tasks) : ocr_tasks[i].result.kind # "pending"
          /\ Len(ocr_tasks) >= MinPagesToAnalyze =>
                /\ last_call.phase = "early"
                /\ last_call.at = page_num
                /\ Len(last_call.input) = Len(ocr_tasks)
                /\ IsSortedByPageNumber(last_call.input)
          /\ Len(ocr_tasks) < MinPagesToAnalyze =>
                (Called => last_call.at < page_num)

\* C15 witness: after a failed capture, the check at page 3 awaited the two
\* tasks there were and called nothing, and capture went on to a third
\* captured page.
C15_Witness ==
    /\ pc = "navigate"
    /\ page_num = CheckEvery + 1
    /\ Cardinality(captured) = CheckEvery
    /\ checks = {[at |-> CheckEvery, awaited |-> CheckEvery - 1, called |-> FALSE]}

Ended == pc \in {"done", "crashed"}

\* the bounds of capture: pages are attempted in the order 1, 2, ..., at most
\* max_pages are captured, none beyond max_pages, their tasks are created in
\* increasing page order, and navigation is requested only from a captured
\* page below max_pages
CaptureWithinCap ==
    /\ \E n \in 0..max_pages : attempted = 1..n
    /\ captured \subseteq attempted
    /\ Cardinality(captured) <= max_pages
    /\ \A i \in 1..(Len(ocr_tasks) - 1) :
          filename_page_num(ocr_tasks[i].image_path)
              < filename_page_num(ocr_tasks[i + 1].image_path)
    /\ \A k \in nav_requests : k \in captured /\ k < max_pages
    /\ pc \in {"capture", "nv_capture"} => page_num \in 1..max_pages

Finalizing == pc \in {"finalize", "ocr_wait", "gpt4"}

\* a step of finalization stays in finalization or ends the session with its
\* result emitted
FinalizationEmits ==
    Finalizing =>
        \/ Finalizing'
        \/ pc' = "done" /\ result'.success /\ emitted' = <<result'>>

C12_SessionsShareNoImage ==
    /\ \A n \in DirPages : Len(screenshots_dir[n]) <= 1
    /\ \A r \in images_read : r.written_by = r.session

\* C17: cleaning the cleaner's output gives that output again: a second
\* pass drops no line and changes none.
C17_CleanerIdempotent ==
    cleaner_pc = "cleaned_again" => cleaned_again = cleaned_text

\* C17 witness: a text of which the first pass dropped or trimmed something
\* and kept something, cleaned a second time.
C17_Witness ==
    /\ cleaner_pc = "cleaned_again"
    /\ cleaned_text # <<>>
    /\ Len(cleaned_text) < Len(text)
    /\ cleaned_again = cleaned_text

\* the positions of the line separators of a text, and its lines
NewlinePositions(t) == {i \in 1..Len(t) : t[i] = Newline}

LineCount(t) == Cardinality(NewlinePositions(t)) + 1

\* the position of the k-th separator; 0 and Len(t) + 1 bound the text
SeparatorAt(t, k) ==
    IF k = 0 THEN 0
    ELSE IF k = LineCount(t) THEN Len(t) + 1
    ELSE CHOOSE i \in NewlinePositions(t) :
             Cardinality({j \in NewlinePositions(t) : j <= i}) = k

LineOf(t, k) == SubSeq(t, SeparatorAt(t, k - 1) + 1, SeparatorAt(t, k) - 1)

LinesOf(t) == [k \in 1..LineCount(t) |-> LineOf(t, k)]

\* a line without its leading and trailing whitespace
Trimmed(line) ==
    LET inked == {i \in 1..Len(line) : line[i] \notin Whitespace} IN
    IF inked = {} THEN <<>>
    ELSE SubSeq(line,
                CHOOSE i \in inked : \A j \in inked : i <= j,
                CHOOSE i \in inked : \A j \in inked : j <= i)

CountIn(line, chars) == Cardinality({i \in 1..Len(line) : line[i] \in chars})

\* the drop rules, as stated
MatchesDropRule(line) ==
    \/ line = <<>>
    \/ Len(line) >= 20 /\ CountIn(line, Base64Chars) = Len(line)
    \/ /\ Len(line) > 10
       /\ 10 * Cardinality({i \in 1..Len(line) :
                               isalnum(line[i]) \/ line[i] \in Whitespace})
             < 7 * Len(line)
    \/ Len(line) < 3
    \/ Len(line) >= 5 /\ CountIn(line, SymbolChars) = Len(line)
    \/ \E w \in google_artifacts :
          \E i, j \in 1..Len(line) : SubSeq(line, i, j) = w

MatchesNoDropRule(line) == ~MatchesDropRule(line)

\* the trimmed lines of a text that match no drop rule, in their order
SurvivingLines(t) ==
    SelectSeq([k \in 1..LineCount(t) |-> Trimmed(LineOf(t, k))],
              MatchesNoDropRule)

\* C18: the output of the cleaner is the trimmed input lines that match none
\* of the drop rules, in their order, joined by newlines; it has no empty
\* line, no line shorter than 3 characters, no leading or trailing
\* whitespace, and it is empty for the empty text.
C18_CleanerKeepsSurvivingLines ==
    cleaner_pc # "text" =>
        /\ IF SurvivingLines(text) = <<>>
           THEN cleaned_text = <<>>
           ELSE LinesOf(cleaned_text) = SurvivingLines(text)
        /\ cleaned_text # <<>> =>
              /\ \A k \in 1..LineCount(cleaned_text) :
                    Len(LineOf(cleaned_text, k)) >= 3
              /\ cleaned_text[1] \notin Whitespace
              /\ cleaned_text[Len(cleaned_text)] \notin Whitespace
        /\ text = <<>> => cleaned_text = <<>>

\* C18 witness: of a text of two lines, one with a watermark and one with
\* whitespace around its words, the output is the second line trimmed.
C18_Witness ==
    /\ cleaner_pc = "cleaned"
    /\ LineCount(text) = 2
    /\ \E w \in google_artifacts : contains(LineOf(text, 1), w)
    /\ LineOf(text, 2) # Trimmed(LineOf(text, 2))
    /\ cleaned_text = Trimmed(LineOf(text, 2))

\* C19: no two unfinished automation threads have the same automation_id,
\* and no entry is set anew while a thread started for it has not finished.
C19_OneWriterPerEntry ==
    /\ \A t1, t2 \in 1..Len(threads) :
          (t1 # t2 /\ Unfinished(t1) /\ Unfinished(t2))
          => threads[t1].automation_id # threads[t2].automation_id
    /\ reinitialised = {}

\* the OCR results there are: the tasks that have finished with a PageText
ResultsAvailable ==
    Cardinality({i \in 1..Len(ocr_tasks) : ocr_tasks[i].result.kind = "dict"})

InCaptureLoop ==
    pc \in {"capture", "check", "navigate", "nv_capture", "nv_check",
            "nv_navigate", "nv_close"}

\* a step of the capture loops that calls the classifier, or stops early,
\* is the check right after the capture of a page numbered 3, 6, 9, ...
\* with 3 results or more; any other step of the loops does neither
ClassifierOnlyAtCheck ==
    (InCaptureLoop /\ (last_call' # last_call \/ stopped_early' # stopped_early))
    => /\ pc \in {"check", "nv_check"}
       /\ page_num \in captured
       /\ page_num % 3 = 0 /\ page_num >= 3
       /\ ResultsAvailable >= 3
       /\ last_call'.phase = "early"
       /\ last_call'.at = page_num
       /\ Len(last_call'.input) >= 3

\* a check with fewer than 3 results goes on to the next page
FewResultsContinue ==
    (pc \in {"check", "nv_check"} /\ pc' # pc /\ ResultsAvailable < 3)
    => /\ pc' \in {"navigate", "nv_navigate"}
       /\ UNCHANGED <<last_call, stopped_early>>

\* C21: during capture the classifier is called only by the check right
\* after a captured page numbered 3, 6, 9, ..., and only with 3 OCR results
\* or more; elsewhere capture goes on with no call and no early stop.
C21_ClassifierOnlyAtThirdPages ==
    [][ClassifierOnlyAtCheck /\ FewResultsContinue]_vars

\* C21 witness: after the check at page 3 called nothing for want of
\* results, capture went on and ended without any call during capture.
C21_Witness ==
    /\ pc = "finalize"
    /\ \E c \in checks : ~c.called
    /\ ~Called
    /\ ~stopped_early
    /\ max_pages \in captured

PendingPages ==
    {filename_page_num(ocr_tasks[i].image_path) :
        i \in {j \in 1..Len(ocr_tasks) : ocr_tasks[j].result = Pending}}

\* wherever the coordinator is about to capture or to navigate, it can,
\* whatever OCR tasks are still running
CaptureNotBlocked ==
    /\ (pc = "capture" /\ ~browser_closed) => ENABLED Capture
    /\ pc = "nv_capture" => ENABLED NvCapture
    /\ pc = "navigate" => ENABLED (Navigate \/ LastPage)
    /\ pc = "nv_navigate" => ENABLED (NvNavigate \/ NvLastPage)

\* the completion of an OCR task leaves the coordinator, the browser, the
\* files and the history of capture as they are
OcrLeavesBrowserAlone ==
    (\E i \in 1..Len(ocr_tasks) :
        ocr_tasks[i].result = Pending /\ ocr_tasks'[i].result # Pending)
    => UNCHANGED <<pc, browser_vars, page_num, pages_extracted, files,
                   capture_history>>

\* C22: OCR never blocks capture, and only the coordinator drives the
\* browser: capture and navigation are enabled whatever tasks are pending,
\* and the completion of a task changes nothing of the browser.
C22_OcrDoesNotBlockCapture ==
    []CaptureNotBlocked /\ [][OcrLeavesBrowserAlone]_vars

\* C22 witness: page k+1 is captured while the OCR tasks of page k, not a
\* multiple of 3, and of page k+1 are both still running.
C22_Witness ==
    \E k \in PendingPages :
        /\ k % CheckEvery # 0
        /\ (k + 1) \in captured
        /\ (k + 1) \in PendingPages

\* after an early stop nothing is captured and no OCR task is created
NothingAfterStop ==
    stopped_early
    => /\ captured' = captured
       /\ files' = files
       /\ Len(ocr_tasks') = Len(ocr_tasks)

\* the final call of a session that stopped early follows the check that
\* stopped it, and is given the list that check was given
FinalCallRepeatsCheck ==
    (stopped_early /\ last_call.phase # "final" /\ last_call'.phase = "final")
    => /\ last_call.phase = "early"
       /\ last_call'.input = last_call.input

\* C23: between the check that stops a session early and finalization no
\* page is captured and no OCR task is dispatched, and the final classifier
\* call is given exactly the list which that check was given, in the viewer
\* loop and in the full-page loop.
C23_EarlyStopFreezesInput ==
    [][NothingAfterStop /\ FinalCallRepeatsCheck]_vars

\* C23 witness: a session stopped early in the full-page loop, went through
\* the viewer loop on the closed browser, and made its final call.
C23_Witness ==
    /\ stopped_early
    /\ ~viewer_element
    /\ browser_closed
    /\ attempted # captured
    /\ last_call.phase = "final"
    /\ pc = "done"

\* C24: in every emitted result selected_page_content is null exactly when
\* selected_page_number is null, whatever page number the final verdict
\* carries.
C24_SelectedContentIffNumber ==
    \A i \in 1..Len(emitted) :
        emitted[i].success
        => (emitted[i].selected_page_content = Null
            <=> emitted[i].selected_page_number = None)

\* C25: whenever the status store marks a session completed, its stored
\* result is the result the extraction produced, and is not null.
C25_CompletedHasResult ==
    \A id \in AutomationIds :
        automation_status[id].status = "completed"
        => automation_status[id].result # Null

Terminal == {"completed", "error"}

\* C26: every automation start_automation accepted comes to the status
\* completed or error, whatever the extractor writes to its pipes, given
\* that the extractor ends whenever its writes are not blocked.
C26_AutomationTerminates ==
    \A id \in AutomationIds :
        (automation_status[id].status = "running")
            ~> (automation_status[id].status \in Terminal)

\* the threads started for id whose extractor process has exited
ExitedFor(id) ==
    {t \in 1..Len(threads) :
        threads[t].automation_id = id /\ threads[t].process = "exited"}

\* one step of the status of id: running until an extractor process of id has
\* exited, then completed for returncode 0 and error, with a message,
\* otherwise; a terminal status stays
StatusLifecycle(id) ==
    LET before == automation_status[id]
        after == automation_status'[id]
    IN /\ (before.status = "running" /\ after.status # "running")
          => /\ after.status \in Terminal
             /\ \E t \in ExitedFor(id) :
                   after.status = "completed" <=> threads[t].returncode = 0
             /\ after.status = "error" => after.error # Null
       /\ before.status \in Terminal => after.status = before.status

\* C27: a session's status is running from the creation of its entry until
\* the extractor process has exited; it then changes once, to completed if
\* and only if the exit code is 0 and to error with a message otherwise, and
\* a terminal status never changes again.
C27_StatusChangesOnceAtExit ==
    [][\A id \in AutomationIds : StatusLifecycle(id)]_vars

\* the response of a poll is the dict it got, as that dict is at the moment
\* of its serialization; a dict replaced meanwhile keeps the value it had
\* when it was replaced; and the poll of an id that has an entry gets it
SnapshotAtOneInstant ==
    /\ (poll.pc = "holding" /\ poll'.pc = "returned")
       => poll'.response =
              Ok(IF poll.live THEN automation_status[poll.automation_id]
                              ELSE poll.status)
    /\ (poll.pc = "holding" /\ poll.live /\ poll'.pc = "holding" /\ ~poll'.live)
       => poll'.status = automation_status[poll.automation_id]
    /\ (poll.pc = "holding" /\ ~poll.live /\ poll'.pc = "holding")
       => poll' = poll
    /\ (poll' # poll /\ poll'.response = NotFound)
       => automation_status[poll'.automation_id] = NoEntry

\* a response that shows the progress of a PROGRESS: line shows the
\* screenshot of that line too
WholeProgressUpdate ==
    (poll.pc = "returned" /\ poll.response.code = "200")
    => \A progress_data \in ProgressLines :
          (/\ progress_data.screenshot # Null
           /\ poll.response.body.progress = Some(progress_data.description))
          => Some(poll.response.body.screenshot) = progress_data.screenshot

\* C28: every status object a poll returns is the entry's value at one
\* instant, and a poll that runs along with the thread's updates sees no
\* update applied in part and does not fail.
C28_PollSeesAtomicSnapshot ==
    [][SnapshotAtOneInstant]_vars /\ []WholeProgressUpdate

\* content is the JSON object between an opening fence, with json or
\* without, and the closing fence, line breaks and white space around or not
FencedObject(content, object) ==
    \E lead \in Margins, opening \in {Fence, FenceJson}, b1 \in Breaks,
       b2 \in Breaks, trail \in Margins :
        content = lead \o opening \o b1 \o object \o b2 \o Fence \o trail

\* C29: a response that is one JSON object in a markdown code fence gives
\* the verdict which the same object gives without the fence, the verdict
\* of the object itself.
C29_FenceChangesNothing ==
    call_pc = "parsed"
    => \A object \in ObjectTexts :
          (FencedObject(result_text, object) \/ result_text = object)
          => call_verdict =
                analyze_book_with_gpt4(call_pages, json_loads(object))

\* C29 witness: the response of the json fence, a line break, the fiction
\* object, a line break and the closing fence was parsed with the verdict of
\* the object.
C29_Witness ==
    /\ call_pc = "parsed"
    /\ result_text =
          FenceJson \o <<Newline>> \o FictionObject \o <<Newline>> \o Fence
    /\ call_verdict.classification = "fiction"
    /\ call_verdict.selected_page = 3
    /\ call_verdict.confidence = "high"

\* C30: in the summary, page i of the list is labelled i, the count is the
\* full length of its text, and the preview is never longer than 400
\* characters and is the whole text when the text has at most 400.
C30_SummaryPreviewCapped ==
    call_pc \in {"summary", "parsed"}
    => /\ Len(pages_summary) = Len(call_pages)
       /\ \A i \in 1..Len(call_pages) :
             /\ pages_summary[i].label = i
             /\ pages_summary[i].characters = Len(call_pages[i].text)
             /\ Len(pages_summary[i].preview) <= PreviewLength
             /\ Len(call_pages[i].text) <= PreviewLength
                   => pages_summary[i].preview = call_pages[i].text

=============================================================================
